---------------------------- MODULE Spec2Model ----------------------------
(***************************************************************************)
(* Model of the spreadsheet ingestion function                             *)
(* supabase/functions/parse-spreadsheet/index.ts: the cell coercers, the   *)
(* row loops over the output of xlsx.utils.sheet_to_json, and the          *)
(* delete-then-insert sequence against the two tables user_wagers and      *)
(* user_transactions.                                                      *)
(*                                                                         *)
(* JavaScript values are tagged records [t |-> ...]:                       *)
(*   undef, null, bool(b), num(v) for a finite number (integers here),     *)
(*   nan, inf(neg), str(s) with s a sequence of character tokens,          *)
(*   date(valid, day) for a Date object (day = UTC days since 1970-01-01), *)
(*   iso(y, m, d) for a 'YYYY-MM-DD' string produced by the code.          *)
(***************************************************************************)
EXTENDS Integers, Sequences, FiniteSets, Bags, TLC

---------------------------------------------------------------------------
(* JavaScript values *)

Undefined == [t |-> "undef"]
Null == [t |-> "null"]
NaN == [t |-> "nan"]
Bool(b) == [t |-> "bool", b |-> b]
Num(n) == [t |-> "num", v |-> n]
Inf(neg) == [t |-> "inf", neg |-> neg]
Str(s) == [t |-> "str", s |-> s]
DateObj(valid, day) == [t |-> "date", valid |-> valid, day |-> day]
Iso(y, m, d) == [t |-> "iso", y |-> y, m |-> m, d |-> d]

\* typeof v === 'number'
IsNumberType(v) == v.t \in {"num", "nan", "inf"}

\* ToBoolean(v): the truthiness the tests !row[0], !row[1] use
Truthy(v) ==
  CASE v.t \in {"undef", "null", "nan"} -> FALSE
    [] v.t = "bool" -> v.b
    [] v.t = "num" -> v.v # 0
    [] v.t = "str" -> v.s # <<>>
    [] OTHER -> TRUE

Digits == <<"0", "1", "2", "3", "4", "5", "6", "7", "8", "9">>

IsDigit(c) == \E i \in 1..10 : Digits[i] = c

DigitVal(c) == (CHOOSE i \in 1..10 : Digits[i] = c) - 1

\* the whitespace token of a string
IsSpace(c) == c = " "

RECURSIVE TrimStart(_)
TrimStart(s) ==
  IF s # <<>> /\ IsSpace(Head(s)) THEN TrimStart(Tail(s)) ELSE s

RECURSIVE TrimEnd(_)
TrimEnd(s) ==
  IF s # <<>> /\ IsSpace(s[Len(s)]) THEN TrimEnd(SubSeq(s, 1, Len(s) - 1)) ELSE s

\* a trim of the leading white space only
TrimStartOnly(s) == TrimStart(s)

\* String.prototype.trim
Trim(s) == TrimEnd(TrimStart(s))

RECURSIVE DigitsValue(_)
DigitsValue(s) ==
  IF s = <<>> THEN 0
  ELSE 10 * DigitsValue(SubSeq(s, 1, Len(s) - 1)) + DigitVal(s[Len(s)])

AllDigits(s) == s # <<>> /\ \A i \in 1..Len(s) : IsDigit(s[i])

\* the value of an unsigned numeric literal: 'Infinity', decimal digits, or NaN
LiteralValue(body, neg) ==
  IF body = <<"Infinity">> THEN Inf(neg)
  ELSE IF AllDigits(body)
       THEN Num(IF neg THEN 0 - DigitsValue(body) ELSE DigitsValue(body))
  ELSE NaN

\* the value of a trimmed string: the empty string is 0, a sign may lead
TrimmedValue(u) ==
  IF u = <<>> THEN Num(0)
  ELSE IF Head(u) \in {"-", "+"} THEN LiteralValue(Tail(u), Head(u) = "-")
  ELSE LiteralValue(u, FALSE)

\* Number(s) for a string: white space is trimmed, the empty string is 0,
\* a signed decimal literal is its value, 'Infinity' is infinite, the rest NaN
StringToNumber(s) == TrimmedValue(Trim(s))

MsPerDay == 86400000

\* the largest time value of a Date, in days (8.64e15 ms)
MaxDateDays == 100000000

\* Number(v)
ToNumber(v) ==
  CASE v.t = "undef" -> NaN
    [] v.t = "null" -> Num(0)
    [] v.t = "bool" -> Num(IF v.b THEN 1 ELSE 0)
    [] v.t = "str" -> StringToNumber(v.s)
    [] v.t = "date" -> IF v.valid THEN Num(v.day * MsPerDay) ELSE NaN
    [] OTHER -> v

RECURSIVE NatToStr(_)
NatToStr(n) ==
  IF n < 10 THEN <<Digits[n + 1]>>
  ELSE Append(NatToStr(n \div 10), Digits[(n % 10) + 1])

\* String(v)
ToStringJS(v) ==
  CASE v.t = "str" -> v.s
    [] v.t = "num" -> IF v.v < 0 THEN <<"-">> \o NatToStr(0 - v.v) ELSE NatToStr(v.v)
    [] v.t = "nan" -> <<"NaN">>
    [] v.t = "inf" -> IF v.neg THEN <<"-", "Infinity">> ELSE <<"Infinity">>
    [] v.t = "bool" -> IF v.b THEN <<"true">> ELSE <<"false">>
    [] v.t = "date" -> IF v.valid THEN <<"DateText">> ELSE <<"Invalid Date">>
    [] v.t = "undef" -> <<"undefined">>
    [] OTHER -> <<"null">>

---------------------------------------------------------------------------
(* Cell coercers *)

\* isNaN(num) ? null : num
NullIfNaN(num) == IF num.t = "nan" THEN Null ELSE num

\* s || null
NullIfEmpty(s) == IF s = <<>> THEN Null ELSE Str(s)

\* safeToNumber
safeToNumber(value) ==
  IF value.t \in {"null", "undef"} \/ value = Str(<<>>) THEN Null
  ELSE NullIfNaN(ToNumber(value))

\* safeToString
safeToString(value) ==
  IF value.t \in {"null", "undef"} THEN Null
  ELSE NullIfEmpty(Trim(ToStringJS(value)))

\* days from 1970-01-01 to Date.UTC(1899, 11, 30)
ExcelEpochDays == -25569

\* the civil date of a day number (days since 1970-01-01), proleptic Gregorian:
\* getUTCFullYear, getUTCMonth() + 1, getUTCDate
CivilOfMonth(y, m, d) == Iso(IF m <= 2 THEN y + 1 ELSE y, m, d)

CivilOfMp(y, doy, mp) ==
  CivilOfMonth(y, IF mp < 10 THEN mp + 3 ELSE mp - 9, doy - (153 * mp + 2) \div 5 + 1)

CivilOfDoy(y, doy) == CivilOfMp(y, doy, (5 * doy + 2) \div 153)

CivilOfYoe(era, doe, yoe) ==
  CivilOfDoy(yoe + era * 400, doe - (365 * yoe + yoe \div 4 - yoe \div 100))

CivilOfDoe(era, doe) ==
  CivilOfYoe(era, doe,
             (doe - doe \div 1460 + doe \div 36524 - doe \div 146096) \div 365)

CivilOfEra(z, era) == CivilOfDoe(era, z - era * 146097)

CivilOfShifted(z) == CivilOfEra(z, (IF z >= 0 THEN z ELSE z - 146096) \div 146097)

CivilFromDays(days) == CivilOfShifted(days + 719468)

\* the conversion without the test serial <= 0
ExcelSerialDateNoLowerBound(serial) ==
  IF ~IsNumberType(serial) THEN Null
  ELSE IF serial.t \in {"inf", "nan"} THEN Null
  ELSE IF ExcelEpochDays + serial.v > MaxDateDays THEN Null
  ELSE CivilFromDays(ExcelEpochDays + serial.v)

\* excelSerialDateToYYYYMMDD
excelSerialDateToYYYYMMDD(serial) ==
  IF ~IsNumberType(serial) THEN Null
  ELSE IF serial.t = "inf" THEN Null
  ELSE IF serial.t = "nan" THEN Null
  ELSE IF serial.v <= 0 THEN Null
  ELSE IF ExcelEpochDays + serial.v > MaxDateDays THEN Null
  ELSE CivilFromDays(ExcelEpochDays + serial.v)

---------------------------------------------------------------------------
(* Sheets and rows *)

\* A worksheet: the texts of its header row and its data rows, each a
\* sequence of cell values aligned with the header (Undefined = empty cell).
Sheet(header, data) == [header |-> header, data |-> data]

\* a row as a plain object keyed by header text, and as an array of cells
ObjectRow(props) == [shape |-> "object", props |-> props]
ArrayRow(cells) == [shape |-> "array", cells |-> cells]

PresentCols(header, cells) ==
  {c \in 1..Len(header) : c <= Len(cells) /\ cells[c] # Undefined}

\* make_json_row of xlsx with no header option: one property per non-empty
\* cell, named by the text of the column's header cell
RowObjectOf(header, cells) ==
  ObjectRow([h \in {header[c] : c \in PresentCols(header, cells)} |->
               cells[CHOOSE c \in PresentCols(header, cells) : header[c] = h]])

\* a row is left out (blankrows is off by default) when no cell of it holds a
\* value: every cell is empty or yields null
IsEmptyRow(header, cells) == \A c \in PresentCols(header, cells) : cells[c] = Null

RECURSIVE SelectRows(_, _)
SelectRows(header, data) ==
  IF data = <<>> THEN <<>>
  ELSE IF IsEmptyRow(header, Head(data))
       THEN SelectRows(header, Tail(data))
       ELSE <<RowObjectOf(header, Head(data))>> \o SelectRows(header, Tail(data))

\* xlsx.utils.sheet_to_json(sheet, {header: 1}): every row, the header row
\* included, as an array of its cells
SheetToJsonHeader1(sheet) ==
  <<ArrayRow([c \in 1..Len(sheet.header) |-> Str(<<sheet.header[c]>>)])>>
    \o [i \in 1..Len(sheet.data) |-> ArrayRow(sheet.data[i])]

\* xlsx.utils.sheet_to_json(sheet), as the handler calls it (no options): the
\* first row is the header row, every later non-blank row becomes one object
\* keyed by header text
sheet_to_json(sheet) == SelectRows(sheet.header, sheet.data)

\* row[key] for a property name
GetProp(row, key) ==
  IF row.shape = "object"
  THEN IF key \in DOMAIN row.props THEN row.props[key] ELSE Undefined
  ELSE IF key = "length" THEN Num(Len(row.cells))
  ELSE IF IsDigit(key) /\ DigitVal(key) + 1 <= Len(row.cells)
       THEN row.cells[DigitVal(key) + 1]
  ELSE Undefined

\* row[k] for a column position k in 0..9
RowAt(row, k) == GetProp(row, Digits[k + 1])

\* whether row.every is callable: Array.prototype.every for an array; for an
\* object row it is a cell value or undefined, never a function
EveryIsFunction(row) == row.shape = "array"

\* an error value: what the catch block reads of it
Err(text, client) == [text |-> text, isError |-> TRUE, client |-> client]

NoError == [text |-> "", isError |-> FALSE, client |-> FALSE]

EveryTypeError == Err("row.every is not a function", FALSE)
InvalidTimeError == Err("Invalid time value", FALSE)

\* the blank-row test of lines 158 and 207:
\*   !row || row.length === 0 || row.every(cell => cell === null || cell === '')
BlankRowTest(row) ==
  IF GetProp(row, "length") = Num(0) THEN [k |-> "skip"]
  ELSE IF ~EveryIsFunction(row) THEN [k |-> "throw", err |-> EveryTypeError]
  ELSE IF \A i \in 1..Len(row.cells) :
            row.cells[i] = Undefined \/ row.cells[i] = Null \/ row.cells[i] = Str(<<>>)
       THEN [k |-> "skip"]
  ELSE [k |-> "pass"]

\* the date/casino test of lines 161 and 210: !row[0] || !row[1]
MissingDateOrCasino(row) == ~Truthy(RowAt(row, 0)) \/ ~Truthy(RowAt(row, 1))

\* row[0] instanceof Date ? row[0].toISOString().split('T')[0]
\*                        : excelSerialDateToYYYYMMDD(row[0])
DateField(cell) ==
  IF cell.t = "date"
  THEN IF cell.valid THEN [k |-> "val", val |-> CivilFromDays(cell.day)]
       ELSE [k |-> "throw", err |-> InvalidTimeError]
  ELSE [k |-> "val", val |-> excelSerialDateToYYYYMMDD(cell)]

WagerRecord(userId, date, row) ==
  [user_id |-> userId,
   wager_date |-> date,
   casino_name |-> safeToString(RowAt(row, 1)),
   game_played |-> safeToString(RowAt(row, 2)),
   bet_size |-> safeToNumber(RowAt(row, 3)),
   num_plays |-> safeToNumber(RowAt(row, 4)),
   ending_balance |-> safeToNumber(RowAt(row, 5)),
   total_wagered |-> safeToNumber(RowAt(row, 6)),
   total_won |-> safeToNumber(RowAt(row, 7)),
   net_result |-> safeToNumber(RowAt(row, 8)),
   rtp |-> safeToNumber(RowAt(row, 9))]

TransactionRecord(userId, date, row) ==
  [user_id |-> userId,
   transaction_date |-> date,
   casino_name |-> safeToString(RowAt(row, 1)),
   type |-> safeToString(RowAt(row, 2)),
   amount_spent |-> safeToNumber(RowAt(row, 3)),
   redemption_request |-> safeToNumber(RowAt(row, 4)),
   after_playthrough_value |-> safeToNumber(RowAt(row, 5)),
   cc_points |-> safeToNumber(RowAt(row, 6)),
   tax_implications |-> safeToNumber(RowAt(row, 7))]

\* the record built from a row that passed both tests
BuildRecord(kind, userId, row, date) ==
  IF date.k = "throw" THEN date
  ELSE [k |-> "rec",
        rec |-> IF kind = "wager" THEN WagerRecord(userId, date.val, row)
                ELSE TransactionRecord(userId, date.val, row)]

AfterBlankRowTest(kind, userId, row, blank) ==
  IF blank.k # "pass" THEN blank
  ELSE IF MissingDateOrCasino(row) THEN [k |-> "skip"]
  ELSE BuildRecord(kind, userId, row, DateField(RowAt(row, 0)))

\* one iteration of a row loop (lines 154-185, 203-227); kind is "wager" or
\* "transaction".  The result is skip, throw(err) or rec(record).
MapRow(kind, userId, row) == AfterBlankRowTest(kind, userId, row, BlankRowTest(row))

\* the row loop over one sheet's rows: the records pushed so far and the
\* number of rows the loop has begun, until the end or the first throw
RECURSIVE RowLoop(_, _, _, _, _)
RowLoopStep(kind, userId, rows, i, acc, res) ==
  IF res.k = "throw"
  THEN [k |-> "throw", err |-> res.err, batch |-> acc, seen |-> i]
  ELSE RowLoop(kind, userId, rows, i + 1,
               IF res.k = "rec" THEN Append(acc, res.rec) ELSE acc)

RowLoop(kind, userId, rows, i, acc) ==
  IF i > Len(rows) THEN [k |-> "ok", err |-> NoError, batch |-> acc, seen |-> Len(rows)]
  ELSE RowLoopStep(kind, userId, rows, i, acc, MapRow(kind, userId, rows[i]))

---------------------------------------------------------------------------
(* Requests *)

\* a parsed workbook: SheetNames and the Sheets object
Workbook(names, sheets) == [SheetNames |-> names, Sheets |-> sheets]

WagersHeader == <<"Date", "Casino Name", "Game Played", "Bet Size">>
TransactionsHeader == <<"Date", "Casino Name", "Type", "Amount Spent">>

ValidWagerCells == <<Num(45292), Str(<<"a">>), Str(<<"b">>), Num(1)>>
OtherWagerCells == <<Num(45293), Str(<<"b">>), Str(<<"a">>), Num(2)>>
NoDateWagerCells == <<Null, Str(<<"b">>), Str(<<"b">>), Num(2)>>

BothSheets(w, t) ==
  Workbook({"Wagers", "Transactions"}, [n \in {"Wagers", "Transactions"} |->
                                          IF n = "Wagers" THEN w ELSE t])

\* the workbooks the model uploads
WbNoSheets == Workbook({"Sheet1"}, [n \in {"Sheet1"} |-> Sheet(<<"Date">>, <<>>)])
WbOnlyWagers ==
  Workbook({"Wagers"}, [n \in {"Wagers"} |-> Sheet(WagersHeader, <<ValidWagerCells>>)])
WbOnlyTransactions ==
  Workbook({"Transactions"},
           [n \in {"Transactions"} |-> Sheet(TransactionsHeader, <<ValidWagerCells>>)])
WbHeadersOnly == BothSheets(Sheet(WagersHeader, <<>>), Sheet(TransactionsHeader, <<>>))
WbBlankRows ==
  BothSheets(Sheet(WagersHeader, <<<<Undefined, Undefined>>, <<>>>>),
             Sheet(TransactionsHeader, <<<<Undefined>>>>))
\* a sheet whose only data row has empty strings in all its cells
WbEmptyStrings ==
  BothSheets(Sheet(WagersHeader, <<<<Str(<<>>), Str(<<>>), Str(<<>>), Str(<<>>)>>>>),
             Sheet(TransactionsHeader, <<>>))
\* a sheet whose first data row has no date
WbNoDate ==
  BothSheets(Sheet(WagersHeader, <<NoDateWagerCells, ValidWagerCells>>),
             Sheet(TransactionsHeader, <<>>))
WbOneValid ==
  BothSheets(Sheet(WagersHeader, <<ValidWagerCells, NoDateWagerCells>>),
             Sheet(TransactionsHeader, <<>>))
WbOtherValid ==
  BothSheets(Sheet(WagersHeader, <<OtherWagerCells>>),
             Sheet(TransactionsHeader, <<ValidWagerCells>>))
\* a sheet with a column titled "length" holding 0 and a column naming an owner
WbLengthColumn ==
  BothSheets(Sheet(<<"length", "user_id">>, <<<<Num(0), Str(<<"u2">>)>>>>),
             Sheet(<<"user_id", "length">>, <<<<Str(<<"u1">>), Num(0)>>>>))

Workbooks ==
  {WbNoSheets, WbOnlyWagers, WbOnlyTransactions, WbHeadersOnly,
   WbEmptyStrings, WbNoDate, WbOneValid, WbOtherValid, WbLengthColumn}

Owners == {"u1", "u2"}

\* the Authorization header and what auth.getUser() answers for it
Auths ==
  {[kind |-> "none", user |-> "-"], [kind |-> "error", user |-> "-"],
   [kind |-> "nouser", user |-> "-"]}
    \cup {[kind |-> "valid", user |-> u] : u \in Owners}

\* the 'spreadsheet' form field
Files ==
  {[kind |-> "none", wb |-> WbNoSheets], [kind |-> "empty", wb |-> WbNoSheets]}
    \cup {[kind |-> "workbook", wb |-> w] : w \in Workbooks}

Request(method, auth, file) == [method |-> method, auth |-> auth, file |-> file]

PreflightRequest ==
  Request("OPTIONS", [kind |-> "none", user |-> "-"], [kind |-> "none", wb |-> WbNoSheets])

\* the requests the model sends: the preflight, every credential failure with
\* a well-formed file, every file for owner u1, and for the other owners a
\* file that gets as far as the store
Requests ==
  {PreflightRequest}
    \cup {Request("POST", a, [kind |-> "workbook", wb |-> WbHeadersOnly]) :
            a \in {x \in Auths : x.kind # "valid"}}
    \cup {Request("POST", [kind |-> "valid", user |-> "u1"], f) : f \in Files}
    \cup {Request("POST", [kind |-> "valid", user |-> u],
                  [kind |-> "workbook", wb |-> WbBlankRows]) : u \in Owners \ {"u1"}}

NoRequest == Request("-", [kind |-> "none", user |-> "-"], [kind |-> "none", wb |-> WbNoSheets])

---------------------------------------------------------------------------
(* Responses *)

Response(status, key, text, wagersAdded, transactionsAdded) ==
  [status |-> status, key |-> key, text |-> text,
   wagersAdded |-> wagersAdded, transactionsAdded |-> transactionsAdded]

NoResponse == Response(0, "-", "-", 0, 0)

\* the catch block, lines 287-294
CatchResponse(error) ==
  Response(IF error.isError /\ error.client THEN 400 ELSE 500,
           "message",
           IF error.text = "" THEN "Internal Server Error" ELSE error.text, 0, 0)

\* the success response, lines 278-285
SuccessResponse(pw, pt) ==
  Response(200, "message", "Successfully processed spreadsheet.", Len(pw), Len(pt))

\* the 400 responses of lines 143 and 192
SheetNotFoundResponse(name) ==
  Response(400, "error", IF name = "Wagers" THEN "Sheet 'Wagers' not found in the spreadsheet."
                         ELSE "Sheet 'Transactions' not found in the spreadsheet.", 0, 0)

\* errors the handler throws itself
MissingAuthError == Err("Missing Authorization header", TRUE)
NoUserError == Err("User not found or invalid token", TRUE)
GetUserError == Err("invalid JWT", FALSE)
NoFileError == Err("Spreadsheet file not found in request data.", TRUE)
EmptyFileError == Err("Received empty file", TRUE)
MissingSheetsError ==
  Err("Spreadsheet must contain both 'Wagers' and 'Transactions' sheets.", TRUE)

\* errors the store answers: a PostgrestError object (no Error instance) for
\* a refused statement, and an error whose message happens to contain 'sheet'
StoreErrors ==
  {[text |-> "connection reset", isError |-> FALSE, client |-> FALSE],
   [text |-> "permission denied for schema sheets", isError |-> TRUE, client |-> TRUE]}

---------------------------------------------------------------------------
(* The handler up to the first store operation, lines 69-241 *)

\* a faulty variant: the owner is read from the first data row of the Wagers
\* sheet when it has a user_id column
OwnerOfCell(cell, fallback) ==
  IF cell.t = "str" /\ Len(cell.s) = 1 /\ cell.s[1] \in Owners THEN cell.s[1] ELSE fallback

OwnerOfRows(rows, fallback) ==
  IF rows = <<>> THEN fallback ELSE OwnerOfCell(GetProp(rows[1], "user_id"), fallback)

OwnerOfWorkbook(workbook, fallback) ==
  IF "Wagers" \in workbook.SheetNames
  THEN OwnerOfRows(sheet_to_json(workbook.Sheets["Wagers"]), fallback)
  ELSE fallback

ResolveUserIdFromSheet(request) ==
  IF request.file.kind = "workbook"
  THEN OwnerOfWorkbook(request.file.wb, request.auth.user)
  ELSE request.auth.user

\* user.id of the user auth.getUser() resolves from the Authorization header
ResolveUserId(request) == request.auth.user

\* a faulty variant: the run stops only when both sheets are missing
SheetsMissingBoth(workbook) ==
  "Wagers" \notin workbook.SheetNames /\ "Transactions" \notin workbook.SheetNames

\* the required-sheets test of line 133
SheetsMissing(workbook) ==
  "Wagers" \notin workbook.SheetNames \/ "Transactions" \notin workbook.SheetNames

\* what the handler has decided when it stops or reaches the store:
\* next is the stage it continues in
Outcome(next, userId, pw, pt, seen, response) ==
  [next |-> next, userId |-> userId, pw |-> pw, pt |-> pt, seen |-> seen,
   response |-> response]

Thrown(error, userId, seen) ==
  Outcome("Failed", userId, <<>>, <<>>, seen, CatchResponse(error))

\* lines 188-228: the Transactions sheet, after the Wagers loop ended with w
AfterTransactionsLoop(userId, w, t) ==
  IF t.k = "throw" THEN Thrown(t.err, userId, w.seen + t.seen)
  ELSE Outcome("DeletingWagers", userId, w.batch, t.batch, w.seen + t.seen, NoResponse)

AfterWagersLoop(userId, workbook, w) ==
  IF w.k = "throw" THEN Thrown(w.err, userId, w.seen)
  ELSE IF "Transactions" \notin DOMAIN workbook.Sheets
  THEN Outcome("Failed", userId, <<>>, <<>>, w.seen, SheetNotFoundResponse("Transactions"))
  ELSE AfterTransactionsLoop(userId, w,
         RowLoop("transaction", userId, sheet_to_json(workbook.Sheets["Transactions"]),
                 1, <<>>))

\* lines 139-228: both row loops
ParseSheets(userId, workbook) ==
  IF "Wagers" \notin DOMAIN workbook.Sheets
  THEN Outcome("Failed", userId, <<>>, <<>>, 0, SheetNotFoundResponse("Wagers"))
  ELSE AfterWagersLoop(userId, workbook,
         RowLoop("wager", userId, sheet_to_json(workbook.Sheets["Wagers"]), 1, <<>>))

\* lines 108-228: the file is read and parsed for the resolved user
ReadFile(userId, file) ==
  IF file.kind = "none" THEN Thrown(NoFileError, userId, 0)
  ELSE IF file.kind = "empty" THEN Thrown(EmptyFileError, userId, 0)
  ELSE IF SheetsMissing(file.wb) THEN Thrown(MissingSheetsError, userId, 0)
  ELSE ParseSheets(userId, file.wb)

\* a faulty variant: the answer of auth.getUser() is not tested
HandleRequestUnverified(request) ==
  IF request.method = "OPTIONS"
  THEN Outcome("Preflight", "-", <<>>, <<>>, 0, Response(200, "ok", "ok", 0, 0))
  ELSE IF request.auth.kind = "none" THEN Thrown(MissingAuthError, "-", 0)
  ELSE ReadFile(ResolveUserId(request), request.file)

\* lines 69-241
HandleRequest(request) ==
  IF request.method = "OPTIONS"
  THEN Outcome("Preflight", "-", <<>>, <<>>, 0, Response(200, "ok", "ok", 0, 0))
  ELSE IF request.auth.kind = "none" THEN Thrown(MissingAuthError, "-", 0)
  ELSE IF request.auth.kind = "error" THEN Thrown(GetUserError, "-", 0)
  ELSE IF request.auth.kind = "nouser" THEN Thrown(NoUserError, "-", 0)
  ELSE ReadFile(ResolveUserId(request), request.file)

---------------------------------------------------------------------------
(* The store: the tables user_wagers and user_transactions, bags of rows *)

BagOfSeq(rows) ==
  [e \in {rows[i] : i \in DOMAIN rows} |-> Cardinality({i \in DOMAIN rows : rows[i] = e})]

\* faulty variants of the delete: nothing goes, one row goes, every row goes
DeleteEqNothing(table, id) == table

RemoveOne(table, xs) ==
  IF xs = {} THEN table ELSE table (-) SetToBag({CHOOSE x \in xs : TRUE})

DeleteEqOne(table, id) == RemoveOne(table, {x \in DOMAIN table : x.user_id = id})

DeleteEqAll(table, id) == EmptyBag

\* .delete().eq('user_id', id): every row whose user_id is id goes
DeleteEq(table, id) == [e \in {x \in DOMAIN table : x.user_id # id} |-> table[e]]

\* .insert(rows): every row of the batch is added
InsertRows(table, rows) == table (+) BagOfSeq(rows)

\* the rows of a table owned by u
OwnedBy(table, u) == [e \in {x \in DOMAIN table : x.user_id = u} |-> table[e]]

\* a faulty variant: the filter names a fixed owner
DeleteFilterFixed(id) == "u2"

\* the value the delete calls pass to .eq('user_id', ...), lines 246 and 254
DeleteFilter(id) == id

\* rows already stored when the model starts
PriorWager(u, n) ==
  [user_id |-> u, wager_date |-> Iso(2023, 1, n), casino_name |-> Str(<<"a">>),
   game_played |-> Null, bet_size |-> Num(n), num_plays |-> Null,
   ending_balance |-> Null, total_wagered |-> Null, total_won |-> Null,
   net_result |-> Null, rtp |-> Null]

PriorTransaction(u, n) ==
  [user_id |-> u, transaction_date |-> Iso(2023, 1, n), casino_name |-> Str(<<"a">>),
   type |-> Null, amount_spent |-> Num(n), redemption_request |-> Null,
   after_playthrough_value |-> Null, cc_points |-> Null, tax_implications |-> Null]

\* a store operation answers success or one of the store's errors; a failed
\* statement changes nothing
StoreResults ==
  {[ok |-> TRUE, error |-> NoError]} \cup {[ok |-> FALSE, error |-> e] : e \in StoreErrors}

---------------------------------------------------------------------------
(* State *)

NumRuns == 2
MaxPrior == 2

Runs == 1..NumRuns

VARIABLES
  wagers,             \* table user_wagers
  transactions,       \* table user_transactions
  pc,                 \* pc[r]: where run r is
  request,            \* request[r]: the request run r serves
  userId,             \* userId[r]: const userId of the run
  parsedWagers,       \* parsedWagers[r]
  parsedTransactions, \* parsedTransactions[r]
  response,           \* response[r]: the Response the run returned
  rowsSeen,           \* history: rows the row loops of run r began
  log,                \* history: log[r], the store calls of run r and their returns
  overlapped,         \* history: another run of the same owner called the store
                      \* between run r's first store call and its end
  startStore,         \* history: both tables as run r's first store call found them
  endStore,           \* history: both tables as run r left them at Done or Failed
  cell,               \* a cell value handed to a coercer
  applied,            \* the coercer it was handed to, "-" before
  result,             \* what the coercer returned
  uploadData,         \* the state of the UploadData page and of its handleUpload
  tracked_casinos,    \* table tracked_casinos
  updateCall,         \* the call of updateTrackedCasino: where it is, what it holds
  rewardsForm         \* the state of CasinoRewardsForm, and the browser's time zone

runVars ==
  <<wagers, transactions, pc, request, userId, parsedWagers, parsedTransactions,
    response, rowsSeen, log, overlapped, startStore, endStore>>

coerceVars == <<cell, applied, result>>

uploadVars == <<uploadData>>

casinoVars == <<tracked_casinos, updateCall>>

formVars == <<rewardsForm>>

clientVars == <<uploadVars, casinoVars, formVars>>

vars == <<runVars, coerceVars, clientVars>>

Event(r, ev, op, table, filter, rows, ok) ==
  [run |-> r, ev |-> ev, op |-> op, table |-> table, filter |-> filter,
   rows |-> rows, ok |-> ok]

\* a call and its return
DeleteEvents(r, table, filter, ok) ==
  <<Event(r, "call", "delete", table, filter, <<>>, TRUE),
    Event(r, "ret", "delete", table, filter, <<>>, ok)>>

InsertEvents(r, table, rows, ok) ==
  <<Event(r, "call", "insert", table, "-", rows, TRUE),
    Event(r, "ret", "insert", table, "-", rows, ok)>>

\* the stages a run is in after its first store call and before its end
Started == {"DeletingTransactions", "InsertingWagers", "InsertingTransactions"}

\* run r has just called the store: the runs of the same owner it cut into
Overlap(r, events) ==
  [x \in Runs |->
     overlapped[x] \/ (events # <<>> /\ x # r /\ userId[x] = userId[r] /\ pc[x] \in Started)]

EmptyStore == [w |-> EmptyBag, t |-> EmptyBag]

\* no request served yet
RunsInit ==
  /\ wagers = SetToBag({PriorWager(u, n) : u \in Owners, n \in 1..MaxPrior})
  /\ transactions = SetToBag({PriorTransaction(u, n) : u \in Owners, n \in 1..MaxPrior})
  /\ pc = [r \in Runs |-> "Idle"]
  /\ request = [r \in Runs |-> NoRequest]
  /\ userId = [r \in Runs |-> "-"]
  /\ parsedWagers = [r \in Runs |-> <<>>]
  /\ parsedTransactions = [r \in Runs |-> <<>>]
  /\ response = [r \in Runs |-> NoResponse]
  /\ rowsSeen = [r \in Runs |-> 0]
  /\ log = [r \in Runs |-> <<>>]
  /\ overlapped = [r \in Runs |-> FALSE]
  /\ startStore = [r \in Runs |-> EmptyStore]
  /\ endStore = [r \in Runs |-> EmptyStore]

\* no coercer applied
NotCoercing == cell = Undefined /\ applied = "-" /\ result = Undefined

\* null, for a state that holds a text or null
NoText == "<null>"

\* no answer of the function yet
NoInvokeResult == [kind |-> "-", context |-> NoText, message |-> NoText]

\* the UploadData page after its first render, lines 6-10; user comes from the
\* auth context
UploadDataMounted(user) ==
  [user |-> user, selectedFile |-> FALSE, loading |-> FALSE, message |-> NoText,
   error |-> NoText, pc |-> "idle", closureError |-> NoText, outcome |-> NoInvokeResult]

\* a row of tracked_casinos
TrackedCasino(id, user, name, hours, bonus, collected) ==
  [id |-> id, user_id |-> user, casino_name |-> name,
   collection_interval_hours |-> hours, bonus_description |-> bonus,
   last_collected_at |-> collected]

\* the table before any update: a casino of each owner
TrackedCasinosBefore ==
  {TrackedCasino("c1", "u1", "a", 24, NoText, NoText),
   TrackedCasino("c2", "u2", "b", 24, "b", "t0")}

\* the columns an updates object may name
UpdateKeys ==
  {"casino_name", "collection_interval_hours", "bonus_description", "user_id",
   "last_collected_at"}

\* an object given to update: keys are the properties whose value is not
\* undefined, val their values
Patch(keys, val) == [keys |-> keys, val |-> val]

NoPatch == Patch({}, TrackedCasino("-", "-", "-", 0, NoText, NoText))

\* no call of updateTrackedCasino made yet
NoUpdateCall ==
  [pc |-> "idle", user |-> "-", id |-> "-", updates |-> NoPatch,
   allowedUpdates |-> NoPatch, thrown |-> NoText]

CasinosIdle == tracked_casinos = TrackedCasinosBefore /\ updateCall = NoUpdateCall

\* a value of the datetime-local input: empty, a text that is no date, or a
\* date and time, given in hours since a Monday 00:00 of the browser's zone
LastTime(kind, hours) == [kind |-> kind, hours |-> hours]

\* null for nextCollectionTime
NoNextCollection == [shown |-> FALSE, day |-> 0, hour |-> 0]

NoErrors == [last_collection_time |-> "", time_zone |-> "", calculation |-> ""]

\* CasinoRewardsForm after its first render, lines 16-20, in a browser whose
\* time zone is browserZone
FormMounted(browserZone) ==
  [formData |-> [last_collection_time |-> LastTime("empty", 0), time_zone |-> "UTC",
                 include_weekends |-> TRUE],
   nextCollectionTime |-> NoNextCollection, errors |-> NoErrors,
   browserZone |-> browserZone, nextCollectionDate |-> 0, loopSteps |-> 0]

FormIdle == rewardsForm = FormMounted("UTC")

\* the client as the server's runs leave it
ClientIdle == uploadData = UploadDataMounted("u1") /\ CasinosIdle /\ FormIdle

Init == RunsInit /\ NotCoercing /\ ClientIdle

\* faulty variants of the control flow: a failed stage is tried again; the
\* last stage leads back to an earlier one; a failed stage is followed by the
\* next one
NextStageRetry(stage, ok) ==
  IF ~ok THEN stage
  ELSE CASE stage = "DeletingWagers" -> "DeletingTransactions"
         [] stage = "DeletingTransactions" -> "InsertingWagers"
         [] stage = "InsertingWagers" -> "InsertingTransactions"
         [] OTHER -> "Done"

NextStageLoop(stage, ok) ==
  IF ~ok THEN "Failed"
  ELSE CASE stage = "DeletingWagers" -> "DeletingTransactions"
         [] stage = "DeletingTransactions" -> "InsertingWagers"
         [] stage = "InsertingWagers" -> "InsertingTransactions"
         [] OTHER -> "InsertingWagers"

NextStageIgnoreError(stage, ok) ==
  CASE stage = "DeletingWagers" -> "DeletingTransactions"
    [] stage = "DeletingTransactions" -> "InsertingWagers"
    [] stage = "InsertingWagers" -> "InsertingTransactions"
    [] OTHER -> "Done"

\* the control flow of the persistence sequence, lines 242-277: the stage
\* that follows a stage whose store call returned ok (or was not made)
NextStage(stage, ok) ==
  IF ~ok THEN "Failed"
  ELSE CASE stage = "DeletingWagers" -> "DeletingTransactions"
         [] stage = "DeletingTransactions" -> "InsertingWagers"
         [] stage = "InsertingWagers" -> "InsertingTransactions"
         [] OTHER -> "Done"

\* a run moves to stage next after the store events; a failed run answers
\* through the catch block, a finished one with the counts
Advance(r, next, error, events) ==
  /\ pc' = [pc EXCEPT ![r] = next]
  /\ log' = [log EXCEPT ![r] = @ \o events]
  /\ overlapped' = Overlap(r, events)
  /\ response' = [response EXCEPT ![r] =
                    IF next = "Failed" THEN CatchResponse(error)
                    ELSE IF next = "Done"
                         THEN SuccessResponse(parsedWagers[r], parsedTransactions[r])
                    ELSE @]
  /\ endStore' = [endStore EXCEPT ![r] =
                    IF next \in {"Done", "Failed"}
                    THEN [w |-> wagers', t |-> transactions'] ELSE @]

\* run r takes request q, whose handling up to the store gave outcome o
Serve(r, q, o) ==
  /\ request' = [request EXCEPT ![r] = q]
  /\ pc' = [pc EXCEPT ![r] = o.next]
  /\ userId' = [userId EXCEPT ![r] = o.userId]
  /\ parsedWagers' = [parsedWagers EXCEPT ![r] = o.pw]
  /\ parsedTransactions' = [parsedTransactions EXCEPT ![r] = o.pt]
  /\ rowsSeen' = [rowsSeen EXCEPT ![r] = o.seen]
  /\ response' = [response EXCEPT ![r] = o.response]

\* lines 69-241: the request is read, the user resolved, both sheets mapped
Handle(r) ==
  /\ pc[r] = "Idle"
  /\ \E q \in Requests : Serve(r, q, HandleRequest(q))
  /\ UNCHANGED <<wagers, transactions, log, overlapped, startStore, endStore, coerceVars, clientVars>>

\* lines 243-249
DeleteWagers(r) ==
  /\ pc[r] = "DeletingWagers"
  /\ startStore' = [startStore EXCEPT ![r] = [w |-> wagers, t |-> transactions]]
  /\ \E res \in StoreResults :
       /\ wagers' = IF res.ok THEN DeleteEq(wagers, DeleteFilter(userId[r])) ELSE wagers
       /\ transactions' = transactions
       /\ Advance(r, NextStage("DeletingWagers", res.ok), res.error,
                  DeleteEvents(r, "user_wagers", DeleteFilter(userId[r]), res.ok))
  /\ UNCHANGED <<request, userId, parsedWagers, parsedTransactions, rowsSeen, coerceVars, clientVars>>

\* lines 251-257
DeleteTransactions(r) ==
  /\ pc[r] = "DeletingTransactions"
  /\ \E res \in StoreResults :
       /\ transactions' =
            IF res.ok THEN DeleteEq(transactions, DeleteFilter(userId[r])) ELSE transactions
       /\ wagers' = wagers
       /\ Advance(r, NextStage("DeletingTransactions", res.ok), res.error,
                  DeleteEvents(r, "user_transactions", DeleteFilter(userId[r]), res.ok))
  /\ UNCHANGED <<request, userId, parsedWagers, parsedTransactions, rowsSeen, startStore,
                 coerceVars, clientVars>>

\* a faulty variant: an insert is made for any batch
AnyBatch(batch) == TRUE

\* the guards of lines 261 and 269: parsedWagers.length > 0
NonEmptyBatch(batch) == Len(batch) > 0

\* lines 261-267
InsertWagers(r) ==
  /\ pc[r] = "InsertingWagers"
  /\ IF NonEmptyBatch(parsedWagers[r])
     THEN \E res \in StoreResults :
            /\ wagers' = IF res.ok THEN InsertRows(wagers, parsedWagers[r]) ELSE wagers
            /\ transactions' = transactions
            /\ Advance(r, NextStage("InsertingWagers", res.ok), res.error,
                       InsertEvents(r, "user_wagers", parsedWagers[r], res.ok))
     ELSE /\ UNCHANGED <<wagers, transactions>>
          /\ Advance(r, NextStage("InsertingWagers", TRUE), NoError, <<>>)
  /\ UNCHANGED <<request, userId, parsedWagers, parsedTransactions, rowsSeen, startStore,
                 coerceVars, clientVars>>

\* lines 269-285
InsertTransactions(r) ==
  /\ pc[r] = "InsertingTransactions"
  /\ IF NonEmptyBatch(parsedTransactions[r])
     THEN \E res \in StoreResults :
            /\ transactions' =
                 IF res.ok THEN InsertRows(transactions, parsedTransactions[r])
                 ELSE transactions
            /\ wagers' = wagers
            /\ Advance(r, NextStage("InsertingTransactions", res.ok), res.error,
                       InsertEvents(r, "user_transactions", parsedTransactions[r], res.ok))
     ELSE /\ UNCHANGED <<wagers, transactions>>
          /\ Advance(r, NextStage("InsertingTransactions", TRUE), NoError, <<>>)
  /\ UNCHANGED <<request, userId, parsedWagers, parsedTransactions, rowsSeen, startStore,
                 coerceVars, clientVars>>

Next ==
  \E r \in Runs :
    \/ Handle(r)
    \/ DeleteWagers(r)
    \/ DeleteTransactions(r)
    \/ InsertWagers(r)
    \/ InsertTransactions(r)

Spec == Init /\ [][Next]_vars

\* a store operation that was called returns: the store steps of a run that is
\* in a persistence stage are taken
StoreStep(r) ==
  DeleteWagers(r) \/ DeleteTransactions(r) \/ InsertWagers(r) \/ InsertTransactions(r)

FairSpec == Spec /\ \A r \in Runs : WF_vars(StoreStep(r))

\* the same with few requests, one that stops before the store and one that
\* gets to it
FewRequests ==
  {Request("POST", [kind |-> "valid", user |-> "u1"], [kind |-> "workbook", wb |-> w]) :
     w \in {WbNoSheets, WbHeadersOnly}}

HandleFew(r) ==
  /\ pc[r] = "Idle"
  /\ \E q \in FewRequests : Serve(r, q, HandleRequest(q))
  /\ UNCHANGED <<wagers, transactions, log, overlapped, startStore, endStore, coerceVars, clientVars>>

FewNext ==
  \E r \in Runs :
    \/ HandleFew(r)
    \/ DeleteWagers(r)
    \/ DeleteTransactions(r)
    \/ InsertWagers(r)
    \/ InsertTransactions(r)

FairFewSpec == Init /\ [][FewNext]_vars /\ \A r \in Runs : WF_vars(StoreStep(r))

---------------------------------------------------------------------------
(* The coercers on their own: a cell value is chosen and handed to one *)

MaxStrLen == 2

\* the characters of the strings tried: a blank, a letter, a digit, a sign
Alphabet == {" ", "a", "7", "-"}

StringsUpTo(n) == UNION {[1..k -> Alphabet] : k \in 0..n}

\* the cell values tried: what a worksheet cell can hold, and the values a
\* caller can pass for a missing cell
Cells ==
  {Undefined, Null, NaN, Bool(TRUE), Bool(FALSE), Inf(FALSE), Inf(TRUE),
   DateObj(TRUE, 20), DateObj(TRUE, 0), DateObj(TRUE, -1), DateObj(FALSE, 0), Str(<<"Infinity">>), Str(<<"-", "Infinity">>), Str(<<"7", "7", "7">>)}
    \cup {Num(n) : n \in {-1, 0, 1, 60, 61, 45292, 45366, 2958465, 2958466,
                         100025569, 100025570}}
    \cup {Str(s) : s \in StringsUpTo(MaxStrLen)}

CoerceInit ==
  RunsInit /\ ClientIdle /\ cell \in Cells /\ applied = "-" /\ result = Undefined

ApplySafeToNumber ==
  /\ applied = "-"
  /\ applied' = "safeToNumber"
  /\ result' = safeToNumber(cell)
  /\ UNCHANGED <<cell, runVars, clientVars>>

ApplySafeToString ==
  /\ applied = "-"
  /\ applied' = "safeToString"
  /\ result' = safeToString(cell)
  /\ UNCHANGED <<cell, runVars, clientVars>>

ApplyExcelSerialDate ==
  /\ applied = "-"
  /\ applied' = "excelSerialDateToYYYYMMDD"
  /\ result' = excelSerialDateToYYYYMMDD(cell)
  /\ UNCHANGED <<cell, runVars, clientVars>>

\* the date expression of lines 171 and 220 on the cell: a value or a throw
ApplyDateField ==
  /\ applied = "-"
  /\ applied' = "DateField"
  /\ result' = DateField(cell)
  /\ UNCHANGED <<cell, runVars, clientVars>>

CoerceNext ==
  ApplySafeToNumber \/ ApplySafeToString \/ ApplyExcelSerialDate \/ ApplyDateField

CoerceSpec == CoerceInit /\ [][CoerceNext]_vars

---------------------------------------------------------------------------
(* The body of the row loops on its own: a row is chosen and mapped *)

\* the date cells and the casino-name cells of the rows tried: empty, falsy,
\* well-formed, and truthy values that the coercers turn into null
DateCellsTried ==
  {Undefined, Null, Str(<<>>), Num(0), Num(45292), Str(<<"7">>), Bool(TRUE),
   DateObj(TRUE, 20)}

CasinoCellsTried ==
  {Undefined, Null, Str(<<>>), Num(0), Str(<<"a">>), Str(<<" ">>), Str(<<" ", "a">>)}

CellsOfRowsTried ==
  {<<d, c, Str(<<"b">>), Num(1)>> : d \in DateCellsTried, c \in CasinoCellsTried}

\* each row as an array of its cells and as the object sheet_to_json makes
RowsTried ==
  {ArrayRow(cells) : cells \in CellsOfRowsTried}
    \cup {RowObjectOf(WagersHeader, cells) : cells \in CellsOfRowsTried}

RowInit ==
  RunsInit /\ ClientIdle /\ cell \in RowsTried /\ applied = "-" /\ result = Undefined

\* lines 154-184 for one row
ApplyMapWagerRow ==
  /\ applied = "-"
  /\ applied' = "wager"
  /\ result' = MapRow("wager", "u1", cell)
  /\ UNCHANGED <<cell, runVars, clientVars>>

\* lines 203-226 for one row
ApplyMapTransactionRow ==
  /\ applied = "-"
  /\ applied' = "transaction"
  /\ result' = MapRow("transaction", "u1", cell)
  /\ UNCHANGED <<cell, runVars, clientVars>>

RowNext == ApplyMapWagerRow \/ ApplyMapTransactionRow

RowSpec == RowInit /\ [][RowNext]_vars

---------------------------------------------------------------------------
(* The UploadData page: the file input and handleUpload *)

\* what the file input hands to handleFileChange: no file, an .xlsx file, a
\* file of another type
FileChoices == {"none", "xlsx", "other"}

\* what supabase.functions.invoke gives: data with or without a message, a
\* function error with a context message, with its own message only or with
\* neither, or a rejected promise
InvokeResults ==
  {[kind |-> "data", context |-> NoText, message |-> m] :
     m \in {NoText, "Successfully processed spreadsheet."}}
    \cup {[kind |-> "functionError", context |-> c, message |-> m] :
            c \in {NoText, "row.every is not a function"},
            m \in {NoText, "Edge Function returned a non-2xx status code"}}
    \cup {[kind |-> "rejected", context |-> NoText, message |-> NoText]}

\* lines 12-29
HandleFileChange ==
  /\ ~uploadData.loading
  /\ \E choice \in FileChoices :
       uploadData' =
         [uploadData EXCEPT
            !.error = IF choice = "other"
                      THEN "Invalid file type. Please upload an .xlsx file."
                      ELSE NoText,
            !.message = NoText,
            !.selectedFile = (choice = "xlsx")]
  /\ UNCHANGED <<runVars, coerceVars, casinoVars, formVars>>

\* the button is disabled without a file and while loading, line 139
ButtonEnabled == uploadData.selectedFile /\ ~uploadData.loading

\* lines 31-57: the click, up to the call of the function.  The handler is
\* the one of the last render, so the error it reads later is the one shown
\* at the click.
HandleUploadBegin ==
  /\ ButtonEnabled
  /\ uploadData.pc = "idle"
  /\ uploadData' =
       IF ~uploadData.selectedFile
       THEN [uploadData EXCEPT !.error = "Please select a file first."]
       ELSE IF uploadData.user = "-"
       THEN [uploadData EXCEPT !.error = "You must be logged in to upload data."]
       ELSE [uploadData EXCEPT !.loading = TRUE, !.error = NoText, !.message = NoText,
                               !.pc = "invoking", !.closureError = uploadData.error,
                               !.outcome = NoInvokeResult]
  /\ UNCHANGED <<runVars, coerceVars, casinoVars, formVars>>

\* lines 62-67
SpecificError(o) ==
  IF o.context # NoText THEN o.context
  ELSE IF o.message # NoText THEN o.message
  ELSE "Failed to process spreadsheet."

\* the error state at the end of the try block, lines 59-69
ErrorAfterTry(o) ==
  IF o.kind = "functionError" THEN "Error: " \o SpecificError(o) ELSE NoText

\* lines 82-87: the catch block tests the error of the handler's render
ErrorAfterCatch(closureError, afterTry) ==
  IF closureError = NoText THEN "An unexpected error occurred during upload."
  ELSE afterTry

\* lines 59-90: the function has answered
HandleUploadEnd ==
  /\ uploadData.pc = "invoking"
  /\ \E o \in InvokeResults :
       uploadData' =
         IF o.kind = "data"
         THEN [uploadData EXCEPT
                 !.message = IF o.message # NoText THEN o.message
                             ELSE "Spreadsheet processed successfully!",
                 !.selectedFile = FALSE, !.loading = FALSE, !.pc = "idle",
                 !.outcome = o]
         ELSE [uploadData EXCEPT
                 !.error = ErrorAfterCatch(uploadData.closureError, ErrorAfterTry(o)),
                 !.loading = FALSE, !.pc = "idle", !.outcome = o]
  /\ UNCHANGED <<runVars, coerceVars, casinoVars, formVars>>

\* the page mounted, signed in or not
UploadInit ==
  /\ RunsInit
  /\ NotCoercing
  /\ CasinosIdle
  /\ FormIdle
  /\ uploadData \in {UploadDataMounted(u) : u \in {"-", "u1"}}

UploadNext == HandleFileChange \/ HandleUploadBegin \/ HandleUploadEnd

UploadSpec == UploadInit /\ [][UploadNext]_vars

---------------------------------------------------------------------------
(* updateTrackedCasino and the table tracked_casinos *)

\* the values the updates objects tried give to the columns they name
ValuesTried == {TrackedCasino("-", "u2", "n", 12, "c", "t1")}

UpdatesTried == {Patch(keys, val) : keys \in SUBSET UpdateKeys, val \in ValuesTried}

\* the ids a caller passes: the casino of owner u1, and one that is not there
IdsTried == {"c1", "c9"}

\* what supabase.auth.getUser() answers
GetUserResults ==
  {[kind |-> "error", id |-> "-"], [kind |-> "none", id |-> "-"]}
    \cup {[kind |-> "user", id |-> u] : u \in Owners}

\* a variant that hands the whole updates object to the store
AllowedUpdatesUnfiltered(updates) == updates

\* lines 161-164: the three fields copied when they are not undefined
AllowedUpdates(updates) ==
  Patch(updates.keys \cap {"casino_name", "collection_interval_hours", "bonus_description"},
        updates.val)

\* update(patch) on one row
ApplyPatch(row, patch) ==
  [k \in DOMAIN row |-> IF k \in patch.keys THEN patch.val[k] ELSE row[k]]

\* the rows .eq('id', id).eq('user_id', user) selects
MatchedRows(table, id, user) == {row \in table : row.id = id /\ row.user_id = user}

\* from('tracked_casinos').update(patch).eq('id', id).eq('user_id', user)
StoreUpdate(table, patch, id, user) ==
  {IF row \in MatchedRows(table, id, user) THEN ApplyPatch(row, patch) ELSE row :
     row \in table}

Throws(call, text) == [call EXCEPT !.pc = "thrown", !.thrown = text]

\* lines 149-172 for a user that was resolved
BeginForUser(call) ==
  IF call.allowedUpdates.keys = {}
  THEN Throws(call, "No valid fields provided for update.")
  ELSE [call EXCEPT !.pc = "updating"]

\* lines 149-177: the call up to the update it sends
UpdateTrackedCasinoBegin ==
  /\ updateCall.pc # "updating"
  /\ \E id \in IdsTried, updates \in UpdatesTried, g \in GetUserResults :
       updateCall' =
         IF g.kind = "error"
         THEN Throws([NoUpdateCall EXCEPT !.id = id, !.updates = updates],
                     "Auth session missing!")
         ELSE IF g.kind = "none"
         THEN Throws([NoUpdateCall EXCEPT !.id = id, !.updates = updates],
                     "User not found - cannot update casino")
         ELSE BeginForUser([NoUpdateCall EXCEPT
                              !.id = id, !.updates = updates, !.user = g.id,
                              !.allowedUpdates = AllowedUpdates(updates)])
  /\ UNCHANGED <<tracked_casinos, runVars, coerceVars, uploadVars, formVars>>

\* lines 174-192: the store answers the update
UpdateTrackedCasinoEnd ==
  /\ updateCall.pc = "updating"
  /\ \E ok \in BOOLEAN :
       IF ~ok
       THEN /\ tracked_casinos' = tracked_casinos
            /\ updateCall' = Throws(updateCall, "connection reset")
       ELSE /\ tracked_casinos' =
                 StoreUpdate(tracked_casinos, updateCall.allowedUpdates,
                             updateCall.id, updateCall.user)
            /\ updateCall' =
                 IF Cardinality(MatchedRows(tracked_casinos, updateCall.id,
                                            updateCall.user)) = 1
                 THEN [updateCall EXCEPT !.pc = "returned"]
                 ELSE Throws(updateCall,
                             "JSON object requested, multiple (or no) rows returned")
  /\ UNCHANGED <<runVars, coerceVars, uploadVars, formVars>>

CasinoInit ==
  /\ RunsInit
  /\ NotCoercing
  /\ uploadData = UploadDataMounted("u1")
  /\ FormIdle
  /\ CasinosIdle

CasinoNext == UpdateTrackedCasinoBegin \/ UpdateTrackedCasinoEnd

CasinoSpec == CasinoInit /\ [][CasinoNext]_vars

---------------------------------------------------------------------------
(* CasinoRewardsForm: the inputs and handleCalculate *)

\* the time zones tried and their offsets from UTC, in hours (no zone changes
\* its offset in the weeks looked at)
KnownZones == {"UTC", "America/Los_Angeles", "Asia/Tokyo"}

ZoneOffset(zone) ==
  CASE zone = "America/Los_Angeles" -> -8
    [] zone = "Asia/Tokyo" -> 9
    [] OTHER -> 0

\* the values typed into the time zone field
ZonesTried == KnownZones \cup {"", "Mars/Phobos"}

\* the values of the datetime-local field: four times of each day of a week
LastTimesTried ==
  {LastTime("empty", 0), LastTime("text", 0)}
    \cup {LastTime("date", 24 * d + h) : d \in 0..6, h \in {0, 9, 17, 23}}

\* lines 37-41
ValidateLastCollectionTime(value) ==
  IF value.kind = "empty" THEN "Last collection time is required."
  ELSE IF value.kind = "text" THEN "Invalid date/time format."
  ELSE ""

\* lines 54-62
ValidateTimeZone(value) ==
  IF value = "" THEN "Time zone is required."
  ELSE IF value \notin KnownZones THEN "Invalid time zone selected"
  ELSE ""

\* lines 84-97: the field and its error are set, the results are cleared
Changed(form, formData, errors) ==
  [form EXCEPT !.formData = formData, !.errors = errors,
               !.nextCollectionTime = NoNextCollection,
               !.nextCollectionDate = 0, !.loopSteps = 0]

\* lines 73-98: a field is changed
HandleInputChange ==
  /\ \/ \E t \in LastTimesTried :
          rewardsForm' =
            Changed(rewardsForm,
                    [rewardsForm.formData EXCEPT !.last_collection_time = t],
                    [rewardsForm.errors EXCEPT
                       !.last_collection_time = ValidateLastCollectionTime(t)])
     \/ \E z \in ZonesTried :
          rewardsForm' =
            Changed(rewardsForm, [rewardsForm.formData EXCEPT !.time_zone = z],
                    [rewardsForm.errors EXCEPT !.time_zone = ValidateTimeZone(z)])
     \/ \E w \in BOOLEAN :
          rewardsForm' =
            Changed(rewardsForm, [rewardsForm.formData EXCEPT !.include_weekends = w],
                    rewardsForm.errors)
  /\ UNCHANGED <<runVars, coerceVars, uploadVars, casinoVars>>

\* Date.prototype.getDay for a time given in hours since a Monday 00:00 of
\* the zone it is read in: 0 is Sunday, 6 is Saturday
GetDay(hours) == ((hours \div 24) + 1) % 7

\* lines 144-149: whole days are added while the day is Saturday or Sunday
RECURSIVE AdjustPastWeekend(_, _)
AdjustPastWeekend(hours, steps) ==
  IF GetDay(hours) \in {6, 0} THEN AdjustPastWeekend(hours + 24, steps + 1)
  ELSE [hours |-> hours, steps |-> steps]

\* lines 135-150: nextCollectionDate in the browser's zone, and the steps of
\* the loop
NextCollectionDate(formData) ==
  IF formData.include_weekends
  THEN [hours |-> formData.last_collection_time.hours + 24, steps |-> 0]
  ELSE AdjustPastWeekend(formData.last_collection_time.hours + 24, 0)

\* lines 153-160: the instant (hours since Monday 00:00 UTC) in a time zone
FormatInZone(instant, zone) ==
  [shown |-> TRUE, day |-> (instant + ZoneOffset(zone)) \div 24,
   hour |-> (instant + ZoneOffset(zone)) % 24]

\* new Date(local time): the instant of a time of the browser's zone
InstantOf(hours, browserZone) == hours - ZoneOffset(browserZone)

\* lines 100-123, for the two fields the calculation reads
RunAllValidations(formData) ==
  [NoErrors EXCEPT
     !.last_collection_time = ValidateLastCollectionTime(formData.last_collection_time),
     !.time_zone = ValidateTimeZone(formData.time_zone)]

\* lines 125-167 for valid fields
Calculated(form, next) ==
  [form EXCEPT
     !.errors = NoErrors,
     !.nextCollectionDate = InstantOf(next.hours, form.browserZone),
     !.loopSteps = next.steps,
     !.nextCollectionTime =
        FormatInZone(InstantOf(next.hours, form.browserZone), form.formData.time_zone)]

\* lines 195-208
HandleCalculate ==
  /\ rewardsForm' =
       IF RunAllValidations(rewardsForm.formData) # NoErrors
       THEN [rewardsForm EXCEPT !.errors = RunAllValidations(rewardsForm.formData)]
       ELSE Calculated(rewardsForm, NextCollectionDate(rewardsForm.formData))
  /\ UNCHANGED <<runVars, coerceVars, uploadVars, casinoVars>>

FormInit ==
  /\ RunsInit
  /\ NotCoercing
  /\ uploadData = UploadDataMounted("u1")
  /\ CasinosIdle
  /\ rewardsForm \in {FormMounted(zone) : zone \in KnownZones}

FormNext == HandleInputChange \/ HandleCalculate

FormSpec == FormInit /\ [][FormNext]_vars

---------------------------------------------------------------------------
(* Reading the history *)

\* the place of a store operation in the fixed sequence
OpIndex(e) ==
  CASE e.op = "delete" /\ e.table = "user_wagers" -> 1
    [] e.op = "delete" /\ e.table = "user_transactions" -> 2
    [] e.op = "insert" /\ e.table = "user_wagers" -> 3
    [] OTHER -> 4

IsCall(e) == e.ev = "call"

Calls(r) == SelectSeq(log[r], IsCall)

CalledOps(r) == {OpIndex(log[r][i]) : i \in DOMAIN log[r]}

\* an operation of the sequence that a run may leave out: an insert of an
\* empty batch
Omittable(r, k) ==
  \/ k = 3 /\ parsedWagers[r] = <<>>
  \/ k = 4 /\ parsedTransactions[r] = <<>>

StrictlyAscending(calls) ==
  \A i, j \in DOMAIN calls : i < j => OpIndex(calls[i]) < OpIndex(calls[j])

\* every call is followed at once by its own return, and nothing else is there
CallThenReturn(events) ==
  /\ Len(events) % 2 = 0
  /\ \A i \in DOMAIN events :
       IF i % 2 = 1
       THEN /\ events[i].ev = "call"
            /\ events[i + 1].ev = "ret"
            /\ OpIndex(events[i + 1]) = OpIndex(events[i])
       ELSE events[i].ev = "ret"

\* the run got into the persistence sequence
InPersistence(r) == log[r] # <<>>

Ended(r) == pc[r] \in {"Done", "Failed"}

\* the stage whose store call failed, 0 if none did
FailedStageOf(events) ==
  IF events # <<>> /\ ~events[Len(events)].ok THEN OpIndex(events[Len(events)]) ELSE 0

OwnerStore(store, u) == [w |-> OwnedBy(store.w, u), t |-> OwnedBy(store.t, u)]

OwnerBatches(r) == [w |-> BagOfSeq(parsedWagers[r]), t |-> BagOfSeq(parsedTransactions[r])]

---------------------------------------------------------------------------
(* Properties *)

\* C1: in every run the store operations called are a prefix of the sequence
\* delete-wagers, delete-transactions, insert-wagers, insert-transactions, an
\* operation before a called one being left out only if it is an insert of an
\* empty batch; no operation is called twice, so none is retried; each call has
\* returned before the next is made; a run that is Done left out nothing else.
PrefixOfFixedSequence(r) ==
  /\ StrictlyAscending(Calls(r))
  /\ CallThenReturn(log[r])
  /\ \A k \in 1..4 :
       (\E c \in CalledOps(r) : k < c) \/ pc[r] = "Done"
         => k \in CalledOps(r) \/ Omittable(r, k)

C1_FixedSequenceOnce == \A r \in Runs : PrefixOfFixedSequence(r)

C1_Witness ==
  \E r \in Runs :
    /\ pc[r] = "Done"
    /\ Len(Calls(r)) = 2
    /\ \E x \in Runs : pc[x] = "Failed" /\ Len(Calls(x)) = 1

\* C2: a store call that failed is the last store event of its run and the
\* run is Failed: no operation of a later stage is called after it.
NothingAfterFailure(r) ==
  \A i \in DOMAIN log[r] :
    log[r][i].ev = "ret" /\ ~log[r][i].ok => i = Len(log[r]) /\ pc[r] = "Failed"

ReplacedByBatches(r) ==
  pc[r] = "Done" /\ ~overlapped[r]
    => OwnerStore(endStore[r], userId[r]) = OwnerBatches(r)

C3_DoneReplacesOwnerData == \A r \in Runs : ReplacedByBatches(r)

C3_Witness ==
  \E r \in Runs :
    /\ pc[r] = "Done"
    /\ ~overlapped[r]
    /\ BagCardinality(OwnedBy(startStore[r].w, userId[r])) = MaxPrior
    /\ BagCardinality(OwnedBy(startStore[r].t, userId[r])) = MaxPrior
    /\ Len(parsedWagers[r]) < MaxPrior
    /\ OwnerStore(endStore[r], userId[r]) = EmptyStore

\* C4: a run whose file is empty, or whose workbook lacks the Wagers or the
\* Transactions sheet, is Failed with no row of either sheet mapped and no
\* store call made, and the step that serves it leaves both tables as they were.
UnusableFile(file) ==
  \/ file.kind = "empty"
  \/ file.kind = "workbook" /\ \E n \in {"Wagers", "Transactions"} : n \notin file.wb.SheetNames

ServedUnusableFile(r) ==
  /\ pc[r] # "Idle"
  /\ request[r].method = "POST"
  /\ request[r].auth.kind = "valid"
  /\ UnusableFile(request[r].file)

FailsBeforeRows(r) ==
  ServedUnusableFile(r) => pc[r] = "Failed" /\ rowsSeen[r] = 0 /\ log[r] = <<>>

StepOfUnusableFile(r) ==
  pc'[r] # pc[r] /\ UnusableFile(request'[r].file)
    => wagers' = wagers /\ transactions' = transactions

C4_UnusableFileFailsBeforeRows ==
  /\ [](\A r \in Runs : FailsBeforeRows(r))
  /\ [][\A r \in Runs : StepOfUnusableFile(r)]_vars

C4_Witness ==
  /\ \E r \in Runs : ServedUnusableFile(r) /\ request[r].file.kind = "empty"
  /\ \E r \in Runs : ServedUnusableFile(r) /\ request[r].file.wb = WbOnlyTransactions
  /\ wagers # EmptyBag

\* C5: when delete-transactions failed after delete-wagers succeeded, the run
\* is Failed and called no insert; if no other run of the owner called the
\* store during it, the owner's wagers are gone and the owner's transactions
\* are those the run found.
DeleteTransactionsFailed(r) ==
  /\ Len(log[r]) >= 4
  /\ log[r][2].ok
  /\ FailedStageOf(SubSeq(log[r], 1, 4)) = 2

WagersGoneTransactionsKept(r) ==
  DeleteTransactionsFailed(r)
    => /\ pc[r] = "Failed"
       /\ CalledOps(r) = {1, 2}
       /\ ~overlapped[r]
            => /\ OwnedBy(endStore[r].w, userId[r]) = EmptyBag
               /\ OwnedBy(endStore[r].t, userId[r]) = OwnedBy(startStore[r].t, userId[r])

FailedInDifferentStages(r1, r2) ==
  /\ FailedStageOf(log[r1]) # 0
  /\ FailedStageOf(log[r2]) # 0
  /\ FailedStageOf(log[r1]) # FailedStageOf(log[r2])

C6_ResponseIdentifiesStage ==
  \A r1, r2 \in Runs : FailedInDifferentStages(r1, r2) => response[r1] # response[r2]

\* C7: every delete call of a run filters on the owner its credential resolves
\* to, every record of its batches and of its insert calls carries that owner,
\* and a record built from any row carries the owner it was built for, whatever
\* the cells of the row say.
OwnedRecords(rows, u) == \A i \in DOMAIN rows : rows[i].user_id = u

CallScopedTo(e, u) ==
  IF e.op = "delete" THEN e.filter = u ELSE OwnedRecords(e.rows, u)

ScopedToCredential(r, u) ==
  /\ \A i \in DOMAIN log[r] : CallScopedTo(log[r][i], u)
  /\ OwnedRecords(parsedWagers[r], u)
  /\ OwnedRecords(parsedTransactions[r], u)
  /\ InPersistence(r) => userId[r] = u

OwnerNamingCells == <<Num(45292), Str(<<"u2">>), Str(<<"u1">>), Str(<<"u2">>)>>

RecordKeepsOwner(kind, u) ==
  BuildRecord(kind, u, ArrayRow(OwnerNamingCells), DateField(Num(45292))).rec.user_id = u

C7_OwnerFromCredential ==
  /\ \A r \in Runs : pc[r] # "Idle" => ScopedToCredential(r, request[r].auth.user)
  /\ \A u \in Owners : RecordKeepsOwner("wager", u) /\ RecordKeepsOwner("transaction", u)

C7_Witness ==
  \E r \in Runs :
    /\ request[r].auth.user = "u1"
    /\ request[r].file.wb = WbLengthColumn
    /\ GetProp(sheet_to_json(request[r].file.wb.Sheets["Wagers"])[1], "user_id") = Str(<<"u2">>)
    /\ CalledOps(r) = {1, 2}
    /\ pc[r] = "Done"

\* C8: a run with the same request as an earlier run, made on what the earlier
\* run left for the owner, leaves for the owner what the earlier run left
\* (both Done, neither cut into by another run of the owner).
QuietDone(r) == pc[r] = "Done" /\ ~overlapped[r]

InSuccession(r1, r2) ==
  /\ r1 # r2
  /\ QuietDone(r1)
  /\ QuietDone(r2)
  /\ request[r1] = request[r2]
  /\ OwnerStore(startStore[r2], userId[r2]) = OwnerStore(endStore[r1], userId[r1])

C8_SecondRunChangesNothing ==
  \A r1, r2 \in Runs :
    InSuccession(r1, r2)
      => OwnerStore(endStore[r2], userId[r2]) = OwnerStore(endStore[r1], userId[r1])

C8_Witness ==
  \E r1, r2 \in Runs :
    /\ InSuccession(r1, r2)
    /\ BagCardinality(OwnedBy(startStore[r1].w, userId[r1])) = MaxPrior
    /\ OwnerStore([w |-> wagers, t |-> transactions], userId[r2])
         = OwnerStore(endStore[r1], userId[r1])

\* C9: a step of a run leaves the stored rows of every owner other than the
\* run's own as they were.
OthersUntouched(r) ==
  pc'[r] # pc[r]
    => \A u \in Owners \ {userId'[r]} :
         /\ OwnedBy(wagers', u) = OwnedBy(wagers, u)
         /\ OwnedBy(transactions', u) = OwnedBy(transactions, u)

C9_OtherOwnersUntouched == [][\A r \in Runs : OthersUntouched(r)]_vars

C9_Witness ==
  /\ \E r \in Runs : pc[r] = "Done" /\ userId[r] = "u1"
  /\ \E r \in Runs : pc[r] = "DeletingTransactions" /\ userId[r] = "u2"
  /\ OwnedBy(wagers, "u1") = EmptyBag
  /\ OwnedBy(transactions, "u1") = EmptyBag
  /\ BagCardinality(OwnedBy(transactions, "u2")) = MaxPrior

\* C10: two runs of one owner whose workbooks hold well-formed rows both
\* finish when no store call fails, each with a batch of its own rows, so that
\* their store calls can leave the rows of both.
HasWellFormedRows(r) ==
  /\ request[r].auth.kind = "valid"
  /\ request[r].file.kind = "workbook"
  /\ request[r].file.wb \in {WbOneValid, WbOtherValid}

FinishesWithBatch(r) ==
  HasWellFormedRows(r) /\ Ended(r) /\ FailedStageOf(log[r]) = 0
    => pc[r] = "Done" /\ parsedWagers[r] # <<>>

C10_RunsWithRowsFinish == \A r \in Runs : FinishesWithBatch(r)

\* what the runs of one owner can leave: when two of them are Done, the
\* owner's rows are the batches of one of them
MixedState(r1, r2) ==
  /\ r1 # r2
  /\ userId[r1] = userId[r2]
  /\ pc[r1] = "Done"
  /\ pc[r2] = "Done"
  /\ OwnerStore([w |-> wagers, t |-> transactions], userId[r1])
       \notin {OwnerBatches(r1), OwnerBatches(r2)}

NoMixedState == \A r1, r2 \in Runs : ~MixedState(r1, r2)

\* the store calls of two runs of one owner do interleave
InterleavedRuns == \E r \in Runs : overlapped[r] /\ pc[r] = "Done"

\* C11: an insert call carries the whole batch of its table and the batch is
\* not empty; a run that is past an insert stage called that insert exactly
\* when its batch is not empty; both deletes were called by then, whatever the
\* batches.
BatchOf(r, table) == IF table = "user_wagers" THEN parsedWagers[r] ELSE parsedTransactions[r]

InsertCarriesBatch(r) ==
  \A i \in DOMAIN log[r] :
    log[r][i].op = "insert"
      => log[r][i].rows = BatchOf(r, log[r][i].table) /\ log[r][i].rows # <<>>

PastInsertWagers(r) ==
  pc[r] \in {"InsertingTransactions", "Done"} \/ FailedStageOf(log[r]) \in {3, 4}

PastInsertTransactions(r) == pc[r] = "Done" \/ FailedStageOf(log[r]) = 4

InsertIffNonEmpty(r) ==
  /\ InsertCarriesBatch(r)
  /\ PastInsertWagers(r)
       => /\ 3 \in CalledOps(r) <=> parsedWagers[r] # <<>>
          /\ {1, 2} \subseteq CalledOps(r)
  /\ PastInsertTransactions(r) => (4 \in CalledOps(r) <=> parsedTransactions[r] # <<>>)

C11_InsertIffBatchNonEmpty == \A r \in Runs : InsertIffNonEmpty(r)

C11_Witness ==
  \E r \in Runs :
    /\ pc[r] = "Done"
    /\ request[r].file.wb = WbHeadersOnly
    /\ parsedWagers[r] = <<>> /\ parsedTransactions[r] = <<>>
    /\ CalledOps(r) = {1, 2}
    /\ Len(log[r]) = 4

\* C12: a run for a workbook with both sheets, none of whose store calls
\* failed, is Done with status 200, with one delete call per table, and reports
\* as wagersAdded and transactionsAdded the numbers of data rows of the two
\* sheets that are not blank and have a date and a casino name; for one valid
\* wager row, one wager row without date and no transaction row that is 1 and 0.
CellAt(cells, k) == IF k <= Len(cells) THEN cells[k] ELSE Undefined

IsBlankCell(v) == v \in {Undefined, Null, Str(<<>>)}

PassesBothChecks(cells) ==
  /\ \E k \in DOMAIN cells : ~IsBlankCell(cells[k])
  /\ Truthy(CellAt(cells, 1))
  /\ Truthy(CellAt(cells, 2))

AcceptedRows(sheet) ==
  Cardinality({i \in DOMAIN sheet.data : PassesBothChecks(sheet.data[i])})

HasBothSheets(r) ==
  /\ request[r].method = "POST"
  /\ request[r].auth.kind = "valid"
  /\ request[r].file.kind = "workbook"
  /\ {"Wagers", "Transactions"} \subseteq request[r].file.wb.SheetNames

ReportsCounts(r, wb) ==
  /\ pc[r] = "Done"
  /\ response[r].status = 200
  /\ response[r].wagersAdded = AcceptedRows(wb.Sheets["Wagers"])
  /\ response[r].transactionsAdded = AcceptedRows(wb.Sheets["Transactions"])
  /\ Len(SelectSeq(log[r], LAMBDA e : e.ev = "call" /\ e.op = "delete")) = 2

SucceedsWithCounts(r) ==
  HasBothSheets(r) /\ Ended(r) /\ FailedStageOf(log[r]) = 0
    => ReportsCounts(r, request[r].file.wb)

C12_SuccessReportsAcceptedRows ==
  /\ AcceptedRows(WbOneValid.Sheets["Wagers"]) = 1
  /\ AcceptedRows(WbOneValid.Sheets["Transactions"]) = 0
  /\ \A r \in Runs : SucceedsWithCounts(r)

\* the rows a run's row loop gets for a sheet, by the data row they come from
Handed(sheet, i) == RowObjectOf(sheet.header, sheet.data[i])

IsHanded(sheet, i) == ~IsEmptyRow(sheet.header, sheet.data[i])

KindOf(name) == IF name = "Wagers" THEN "wager" ELSE "transaction"

\* C13: a data row of either sheet whose date cell (column 0) or casino cell
\* (column 1) is falsy is skipped by the row loop: the loop neither builds a
\* record from it nor stops at it.
LacksDateOrCasino(cells) == ~Truthy(CellAt(cells, 1)) \/ ~Truthy(CellAt(cells, 2))

SkipsRowsLackingDateOrCasino(u, sheet, kind) ==
  \A i \in DOMAIN sheet.data :
    IsHanded(sheet, i) /\ LacksDateOrCasino(sheet.data[i])
      => MapRow(kind, u, Handed(sheet, i)).k = "skip"

C13_RowWithoutDateOrCasinoSkipped ==
  \A r \in Runs :
    HasBothSheets(r)
      => \A name \in {"Wagers", "Transactions"} :
           SkipsRowsLackingDateOrCasino(userId[r], request[r].file.wb.Sheets[name], KindOf(name))

\* C14: a data row with no cells, or with only null or empty cells, is skipped
\* by the blank-row test: it either never reaches the row loop or the loop
\* skips it, and the loop does not stop at it.
IsBlankRow(cells) == \A k \in DOMAIN cells : IsBlankCell(cells[k])

SkipsBlankRows(u, sheet, kind) ==
  \A i \in DOMAIN sheet.data :
    IsBlankRow(sheet.data[i]) /\ IsHanded(sheet, i)
      => BlankRowTest(Handed(sheet, i)).k = "skip"

C14_BlankRowSkippedFirst ==
  \A r \in Runs :
    HasBothSheets(r)
      => \A name \in {"Wagers", "Transactions"} :
           SkipsBlankRows(userId[r], request[r].file.wb.Sheets[name], KindOf(name))

\* C15: no row makes a run fail: a run for a workbook with both sheets has
\* gone through all rows of both sheets and on to the persistence stages.
RowsOf(wb) ==
  Len(sheet_to_json(wb.Sheets["Wagers"])) + Len(sheet_to_json(wb.Sheets["Transactions"]))

ReachesPersistence(r) ==
  /\ rowsSeen[r] = RowsOf(request[r].file.wb)
  /\ pc[r] = "Failed" => log[r] # <<>>

C15_NoRowFailsTheRun ==
  \A r \in Runs : HasBothSheets(r) /\ pc[r] # "Idle" => ReachesPersistence(r)

\* C16: every row the row loops get is an array of the row's cells in column
\* order, so that row[k] is the cell of column k.
IsPositional(sheet, i) ==
  /\ Handed(sheet, i).shape = "array"
  /\ \A k \in 0..9 : RowAt(Handed(sheet, i), k) = CellAt(sheet.data[i], k + 1)

RowsArePositional(sheet) ==
  \A i \in DOMAIN sheet.data : IsHanded(sheet, i) => IsPositional(sheet, i)

C16_RowsArePositionalArrays ==
  \A r \in Runs :
    HasBothSheets(r)
      => \A name \in {"Wagers", "Transactions"} :
           RowsArePositional(request[r].file.wb.Sheets[name])

\* C17: a run whose workbook lacks one of the two sheets answers with the
\* response that names that sheet.
LacksOnly(r, name) ==
  /\ pc[r] # "Idle"
  /\ request[r].method = "POST"
  /\ request[r].auth.kind = "valid"
  /\ request[r].file.kind = "workbook"
  /\ {"Wagers", "Transactions"} \ request[r].file.wb.SheetNames = {name}

C17_MissingSheetIsNamed ==
  \A r \in Runs : \A name \in {"Wagers", "Transactions"} :
    LacksOnly(r, name) => response[r] = SheetNotFoundResponse(name)

\* the answers for a missing Wagers sheet and for a missing Transactions sheet
\* are the same
SameAnswerForEitherSheet ==
  \A r1, r2 \in Runs :
    LacksOnly(r1, "Wagers") /\ LacksOnly(r2, "Transactions") => response[r1] = response[r2]

\* C18: a run whose file is empty or lacks a sheet answers status 400, and a
\* run one of whose store calls failed answers status 500, whatever the error
\* of the store was.
ClientErrorIs400(r) == ServedUnusableFile(r) => response[r].status = 400

StoreFailureIs500(r) == FailedStageOf(log[r]) # 0 => response[r].status = 500

UnusableFileIs400 == \A r \in Runs : ClientErrorIs400(r)

\* C19: when every store operation returns, a run that is in a persistence
\* stage gets to Done or Failed, and a run that is Done or Failed makes no
\* further store call and stays where it is.
Stages == {"DeletingWagers", "DeletingTransactions", "InsertingWagers", "InsertingTransactions"}

StaysEnded(r) == Ended(r) => pc'[r] = pc[r] /\ log'[r] = log[r]

C19_EveryRunTerminates ==
  /\ \A r \in Runs : (pc[r] \in Stages) ~> Ended(r)
  /\ [][\A r \in Runs : StaysEnded(r)]_vars

C19_Witness ==
  /\ \E r \in Runs : pc[r] = "Done" /\ Len(log[r]) = 4
  /\ \E r \in Runs : pc[r] = "Failed" /\ FailedStageOf(log[r]) = 2
  /\ \A r \in Runs : Ended(r)

\* C20: safeToNumber returns null for null, undefined, the empty string, a
\* string of white space only and a string that is not a numeric literal, and a
\* number for every other value.
IsBlankString(v) == v.t = "str" /\ \A i \in DOMAIN v.s : IsSpace(v.s[i])

IsNonNumericString(v) == v.t = "str" /\ ~IsBlankString(v) /\ StringToNumber(v.s) = NaN

ShouldBeNull(v) ==
  v.t \in {"null", "undef"} \/ IsBlankString(v) \/ IsNonNumericString(v)

IsNumber(v) == v.t \in {"num", "inf"}

NumberOrNull(v, out) == IF ShouldBeNull(v) THEN out = Null ELSE IsNumber(out)

C20_CoerceNumberNullOrNumber ==
  applied = "safeToNumber" => NumberOrNull(cell, result)

\* what safeToNumber does return for a string of white space only
BlankStringGivesZero ==
  applied = "safeToNumber" /\ IsBlankString(cell) /\ cell.s # <<>> => result = Num(0)

\* the values for which safeToNumber does otherwise: a string of white space,
\* and the values NaN and Invalid Date, for which it returns null
TreatedOtherwise(v) ==
  \/ IsBlankString(v) /\ v.s # <<>>
  \/ v = NaN
  \/ v.t = "date" /\ ~v.valid

NumberOrNullForTheRest ==
  applied = "safeToNumber" /\ ~TreatedOtherwise(cell) => NumberOrNull(cell, result)

\* C21: safeToNumber never returns a value that is not finite: an input whose
\* numeric parse is positive or negative infinity or NaN gives null.
IsFinite(v) == v.t = "num"

ParsesNonFinite(v) ==
  ~(v.t \in {"null", "undef"}) /\ v # Str(<<>>) /\ ~IsFinite(ToNumber(v))

C21_CoerceNumberNeverNonFinite ==
  applied = "safeToNumber" =>
    /\ result = Null \/ IsFinite(result)
    /\ ParsesNonFinite(cell) => result = Null

\* what safeToNumber does with a non-finite parse: NaN gives null, an
\* infinity is returned as it is
NaNGivesNull ==
  applied = "safeToNumber" /\ ToNumber(cell) = NaN => result = Null

InfinityIsReturned ==
  applied = "safeToNumber" /\ ToNumber(cell).t = "inf" => result = ToNumber(cell)

InfinityWasParsed ==
  applied = "safeToNumber" /\ cell = Str(<<"-", "Infinity">>) /\ result = Inf(TRUE)

\* C22: the date expression maps a numeric serial n > 0 to the calendar date n
\* days after 1899-12-30 (serial 1 to 1899-12-31), serial 0 and every negative
\* serial to null, and a native date to its UTC calendar date.
IsLeap(y) == y % 4 = 0 /\ (y % 100 # 0 \/ y % 400 = 0)

YearLength(y) == IF IsLeap(y) THEN 366 ELSE 365

MonthLength(y, m) ==
  IF m = 2 THEN (IF IsLeap(y) THEN 29 ELSE 28)
  ELSE IF m \in {4, 6, 9, 11} THEN 30
  ELSE 31

\* the leap years among the years 1 .. y - 1, and the days before 1 January
\* of year y, counted from 1 January of year 1
LeapsBefore(y) == (y - 1) \div 4 - (y - 1) \div 100 + (y - 1) \div 400

DaysBeforeYear(y) == 365 * (y - 1) + LeapsBefore(y)

RECURSIVE DaysBeforeMonth(_, _)
DaysBeforeMonth(y, m) ==
  IF m = 1 THEN 0 ELSE DaysBeforeMonth(y, m - 1) + MonthLength(y, m - 1)

MonthOf(y, doy) ==
  CHOOSE m \in 1..12 :
    DaysBeforeMonth(y, m) < doy /\ doy <= DaysBeforeMonth(y, m) + MonthLength(y, m)

DateOfOrdinal(y, doy) == Iso(y, MonthOf(y, doy), doy - DaysBeforeMonth(y, MonthOf(y, doy)))

YearOf(n) ==
  CHOOSE y \in (n \div 366)..(n \div 365 + 1) :
    DaysBeforeYear(y) < n /\ n <= DaysBeforeYear(y) + YearLength(y)

\* the date of day number n, counted from 1 for 1 January of year 1
DateOfDayNumber(n) == DateOfOrdinal(YearOf(n), n - DaysBeforeYear(YearOf(n)))

\* the date n days after day doy of year y
DaysAfter(y, doy, n) == DateOfDayNumber(DaysBeforeYear(y) + doy + n)

\* 1899-12-30 is day 364 of 1899, 1970-01-01 is day 1 of 1970
DaysAfterExcelEpoch(n) == DaysAfter(1899, 364, n)

UTCDateOf(date) == DaysAfter(1970, 1, date.day)

IsSerial(v) == v.t = "num"

InDateRange(v) == ExcelEpochDays + v.v <= MaxDateDays

DateValue(v) == [k |-> "val", val |-> v]

CoerceDateMaps(v, out) ==
  /\ IsSerial(v) /\ v.v > 0 /\ InDateRange(v) => out = DateValue(DaysAfterExcelEpoch(v.v))
  /\ IsSerial(v) /\ v.v <= 0 => out = DateValue(Null)
  /\ v.t = "date" /\ v.valid => out = DateValue(UTCDateOf(v))

SerialOneIs18991231 ==
  applied = "DateField" /\ cell = Num(1) => result = DateValue(Iso(1899, 12, 31))

Serial45292Is20240101 ==
  applied = "DateField" /\ cell = Num(45292) => result = DateValue(Iso(2024, 1, 1))

LastDayOfYear9999 ==
  applied = "DateField" /\ cell = Num(2958465) => result = DateValue(Iso(9999, 12, 31))

\* a serial after 9999-12-31 gives a year of five digits
FiveDigitYear ==
  applied = "DateField" /\ cell = Num(2958466) => result = DateValue(Iso(10000, 1, 1))

\* C23: the date expression never throws: a serial whose date is out of range,
\* an invalid native date and every value that is neither a number nor a date
\* give null.
IsInvalidDate(v) == v.t = "date" /\ ~v.valid

IsOutOfRangeSerial(v) == IsSerial(v) /\ v.v > 0 /\ ~InDateRange(v)

IsOtherShape(v) == ~IsNumberType(v) /\ v.t # "date"

GivesNullDate(v) ==
  IsOutOfRangeSerial(v) \/ v.t \in {"nan", "inf"} \/ IsInvalidDate(v) \/ IsOtherShape(v)

InvalidDateThrows ==
  applied = "DateField" /\ IsInvalidDate(cell) =>
    result = [k |-> "throw", err |-> InvalidTimeError]

NullDateForTheRest ==
  applied = "DateField" /\ ~IsInvalidDate(cell) =>
    /\ result.k = "val"
    /\ GivesNullDate(cell) => result = DateValue(Null)

OutOfRangeSerialWasTried ==
  applied = "DateField" /\ IsOutOfRangeSerial(cell) /\ result = DateValue(Null)

\* C24: safeToString returns null for null and undefined and for a value whose
\* string form is empty after trimming, and otherwise the trimmed string form:
\* never the empty string, never a string with white space at either end.
AllSpaces(s) == \A i \in DOMAIN s : IsSpace(s[i])

IsUnpadded(t) == t # <<>> /\ ~IsSpace(t[1]) /\ ~IsSpace(t[Len(t)])

\* s is t with white space, and nothing else, before and after it
IsPaddingOf(s, t) ==
  \E i \in 1..Len(s) :
    /\ i + Len(t) - 1 <= Len(s)
    /\ SubSeq(s, i, i + Len(t) - 1) = t
    /\ AllSpaces(SubSeq(s, 1, i - 1))
    /\ AllSpaces(SubSeq(s, i + Len(t), Len(s)))

IsMissing(v) == v.t \in {"null", "undef"}

TrimmedStringOrNull(v, out) ==
  IF IsMissing(v) THEN out = Null
  ELSE IF AllSpaces(ToStringJS(v)) THEN out = Null
  ELSE out.t = "str" /\ IsUnpadded(out.s) /\ IsPaddingOf(ToStringJS(v), out.s)

C24_CoerceStringTrimmedOrNull ==
  applied = "safeToString" => TrimmedStringOrNull(cell, result)

C24_Witness ==
  /\ applied = "safeToString"
  /\ \/ cell = Str(<<" ", "a">>) /\ result = Str(<<"a">>)
     \/ cell = Str(<<"a", " ">>) /\ result = Str(<<"a">>)
     \/ cell = Str(<<" ", " ">>) /\ result = Null

\* C25: no delete and no insert is issued for a request whose caller was not
\* resolved: a preflight request, a request without Authorization header and a
\* request whose credential yields no user end without any store operation.
IsPreflight(q) == q.method = "OPTIONS"

Unidentified(q) == q # NoRequest /\ (IsPreflight(q) \/ q.auth.kind # "valid")

EndsWithoutStoreOperation(r) ==
  /\ log[r] = <<>>
  /\ pc[r] \in {"Preflight", "Failed"}
  /\ userId[r] = "-"
  /\ parsedWagers[r] = <<>> /\ parsedTransactions[r] = <<>>

C25_NoStoreOperationWithoutIdentity ==
  \A r \in Runs : Unidentified(request[r]) => EndsWithoutStoreOperation(r)

\* a preflight request and a request with a credential of no user were both
\* served, and the store is as it was
C25_Witness ==
  /\ \E r \in Runs : IsPreflight(request[r]) /\ pc[r] = "Preflight"
  /\ \E r \in Runs :
       request[r].method = "POST" /\ request[r].auth.kind = "nouser" /\ pc[r] = "Failed"
  /\ wagers = SetToBag({PriorWager(u, n) : u \in Owners, n \in 1..MaxPrior})
  /\ transactions = SetToBag({PriorTransaction(u, n) : u \in Owners, n \in 1..MaxPrior})

\* the answers such requests get
UnidentifiedAnswers ==
  \A r \in Runs :
    Unidentified(request[r]) =>
      IF IsPreflight(request[r]) THEN response[r].status = 200
      ELSE response[r].status = IF request[r].auth.kind = "error" THEN 500 ELSE 400

\* C26: every record a row loop makes has a date and a casino name that are
\* not null: a row whose date or casino-name cell is truthy but coerces to null
\* gives no record.
DateOf(rec) ==
  IF "wager_date" \in DOMAIN rec THEN rec.wager_date ELSE rec.transaction_date

HasDateAndCasino(rec) == DateOf(rec) # Null /\ rec.casino_name # Null

WasMapped == applied \in {"wager", "transaction"}

TruthyCellsGiveRecord ==
  WasMapped /\ cell.shape = "array" /\ ~IsInvalidDate(RowAt(cell, 0)) =>
    (result.k = "rec") = (Truthy(RowAt(cell, 0)) /\ Truthy(RowAt(cell, 1)))

TextDateGivesNullDate ==
  WasMapped /\ cell.shape = "array" /\ RowAt(cell, 0) = Str(<<"7">>)
    /\ Truthy(RowAt(cell, 1)) => result.k = "rec" /\ DateOf(result.rec) = Null

BlankCasinoGivesNullCasino ==
  WasMapped /\ cell.shape = "array" /\ Truthy(RowAt(cell, 0))
    /\ RowAt(cell, 1) = Str(<<" ">>) => result.k = "rec" /\ result.rec.casino_name = Null

\* a row as sheet_to_json hands it over never gets as far as a record
ObjectRowGivesNoRecord ==
  WasMapped /\ cell.shape = "object" => result.k = "throw"

\* in the handler as it is, the batches stay empty
BatchesStayEmpty ==
  \A r \in Runs : parsedWagers[r] = <<>> /\ parsedTransactions[r] = <<>>

\* C27: no compensation follows a failed insert.  A run whose workbook holds a
\* row for each table calls the inserts once its deletes succeeded; when
\* insert-wagers fails the run is Failed and both collections of the owner are
\* empty; when insert-transactions fails the run is Failed, the owner's wagers
\* are the new batch and the owner's transactions are empty (no other run of
\* the owner having called the store meanwhile).
HasRowsInBothSheets(r) ==
  /\ request[r].auth.kind = "valid"
  /\ request[r].file.kind = "workbook"
  /\ request[r].file.wb = WbOtherValid

InsertsAreIssued(r) ==
  HasRowsInBothSheets(r) /\ Ended(r) /\ FailedStageOf(log[r]) \notin {1, 2}
    => 3 \in CalledOps(r)

LeftAfterInsertFailure(r) ==
  /\ FailedStageOf(log[r]) = 3 /\ ~overlapped[r]
       => /\ pc[r] = "Failed"
          /\ OwnerStore(endStore[r], userId[r]) = EmptyStore
  /\ FailedStageOf(log[r]) = 4 /\ ~overlapped[r]
       => /\ pc[r] = "Failed"
          /\ OwnedBy(endStore[r].w, userId[r]) = BagOfSeq(parsedWagers[r])
          /\ OwnedBy(endStore[r].t, userId[r]) = EmptyBag

NoInsertIsCalled == \A r \in Runs : CalledOps(r) \subseteq {1, 2}

RunWithRowsCallsNothing ==
  \A r \in Runs : HasRowsInBothSheets(r) => pc[r] = "Failed" /\ log[r] = <<>>

\* C28: when handleUpload has finished after a function error, the error shown
\* is 'Error: ' and the specific message of the function error; the generic
\* message is shown only after a failure that is no function error; loading is
\* false again in every case.
UploadEnds == uploadData.pc = "invoking" /\ uploadData'.pc = "idle"

GenericError == "An unexpected error occurred during upload."

ShownAfterUpload(o, page) ==
  /\ ~page.loading
  /\ o.kind = "functionError" => page.error = "Error: " \o SpecificError(o)
  /\ o.kind = "rejected" => page.error = GenericError
  /\ o.kind = "data" => page.error = NoText

C28_FunctionErrorShowsSpecificMessage ==
  [][UploadEnds => ShownAfterUpload(uploadData'.outcome, uploadData')]_vars

\* what the page shows instead: the error of the render in which the button
\* was clicked decides, not the error set in the try block
ShownByClosure(o, page) ==
  o.kind # "data" =>
    page.error = IF page.closureError = NoText THEN GenericError ELSE ErrorAfterTry(o)

StaleErrorDecides ==
  [][UploadEnds => ShownByClosure(uploadData'.outcome, uploadData')]_vars

\* a first upload that meets a function error shows the generic message
FirstFunctionErrorShowsGeneric ==
  [][UploadEnds /\ uploadData.closureError = NoText
       /\ uploadData'.outcome.kind = "functionError"
     => uploadData'.error = GenericError]_vars

\* loading is false again, and the success case is as the claim says
LoadingFalseAfterUpload == [][UploadEnds => ~uploadData'.loading]_vars

LoadingOnlyWhileInvoking == uploadData.loading = (uploadData.pc = "invoking")

\* an upload repeated while an error is shown: a function error then shows its
\* message, a rejected call shows no error at all
RepeatedUploadWasTried ==
  /\ uploadData.pc = "idle"
  /\ uploadData.closureError # NoText
  /\ uploadData.outcome.kind = "rejected"
  /\ uploadData.error = NoText

\* C29: updateTrackedCasino writes only casino_name, collection_interval_hours
\* and bonus_description, and only to the row with the given id owned by the
\* current user; when a user is signed in and the updates object defines none
\* of the three fields it throws 'No valid fields provided for update.', and
\* without a signed-in user it throws the user error, in both cases without a
\* store update.
UpdatableFields == {"casino_name", "collection_interval_hours", "bonus_description"}

DefinesNoUpdatableField(call) == call.updates.keys \cap UpdatableFields = {}

\* new is row after the update the call asked for
UpdatedAsAsked(row, new, call) ==
  \A k \in DOMAIN row :
    new[k] = IF k \in UpdatableFields \cap call.updates.keys
             THEN call.updates.val[k] ELSE row[k]

IsTarget(row, call) == row.id = call.id /\ row.user_id = call.user

WritesOnlyTheTarget ==
  /\ Cardinality(tracked_casinos') = Cardinality(tracked_casinos)
  /\ \A row \in tracked_casinos :
       IF updateCall.pc = "updating" /\ updateCall'.pc = "returned"
            /\ IsTarget(row, updateCall)
       THEN \E new \in tracked_casinos' : UpdatedAsAsked(row, new, updateCall)
       ELSE row \in tracked_casinos'

ThrowsWithoutUpdate(call) ==
  /\ call.pc # "idle" /\ call.user = "-"
       => call.pc = "thrown"
            /\ call.thrown \in {"User not found - cannot update casino",
                                "Auth session missing!"}
  /\ call.pc # "idle" /\ call.user # "-" /\ DefinesNoUpdatableField(call)
       => call.pc = "thrown" /\ call.thrown = "No valid fields provided for update."

C29_UpdateWritesAllowedFieldsOfOwnRow ==
  /\ [](ThrowsWithoutUpdate(updateCall))
  /\ [][WritesOnlyTheTarget]_vars

\* a call of owner u1 on its casino returned; its updates named user_id and
\* last_collected_at as well, and the row has its owner and its collection
\* time as before and the new name
C29_Witness ==
  /\ updateCall.pc = "returned"
  /\ updateCall.updates.keys = UpdateKeys
  /\ TrackedCasino("c1", "u1", "n", 12, "c", NoText) \in tracked_casinos

\* the claim as it was stated: whenever the updates object defines none of
\* the three fields the call throws 'No valid fields provided for update.'
C29_NoFieldsAlwaysThrowsNoValidFields ==
  updateCall.pc # "idle" /\ DefinesNoUpdatableField(updateCall)
    => updateCall.pc = "thrown"
         /\ updateCall.thrown = "No valid fields provided for update."

\* the row of another owner is never changed
OtherOwnersCasinoKept == TrackedCasino("c2", "u2", "b", 24, "b", "t0") \in tracked_casinos

\* C30: with include_weekends false the next collection time is the last one
\* plus 24 hours, moved forward by whole days until it is neither Saturday nor
\* Sunday; the loop takes at most two steps; the time shown, in the selected
\* time zone, is never on a Saturday or a Sunday.
WeekdaysOnly ==
  rewardsForm.nextCollectionTime.shown /\ ~rewardsForm.formData.include_weekends

\* day is a number of days since a Monday
IsWeekend(day) == day % 7 \in {5, 6}

DayInZone(instant, zone) == (instant + ZoneOffset(zone)) \div 24

LastInstant(form) ==
  form.formData.last_collection_time.hours - ZoneOffset(form.browserZone)

MovedByWholeDays(form) ==
  /\ form.loopSteps <= 2
  /\ form.nextCollectionDate = LastInstant(form) + 24 + 24 * form.loopSteps
  /\ ~IsWeekend(DayInZone(form.nextCollectionDate, form.browserZone))
  /\ \A k \in 0..(form.loopSteps - 1) :
       IsWeekend(DayInZone(LastInstant(form) + 24 + 24 * k, form.browserZone))

ShownOnWorkingDay(form) ==
  /\ form.nextCollectionTime.day = DayInZone(form.nextCollectionDate, form.formData.time_zone)
  /\ ~IsWeekend(form.nextCollectionTime.day)

C30_NextCollectionSkipsWeekend ==
  WeekdaysOnly => MovedByWholeDays(rewardsForm) /\ ShownOnWorkingDay(rewardsForm)

\* what holds: the loop and the day in the browser's zone; and the day shown
\* when the selected zone is the browser's
LoopMovesPastWeekendInBrowserZone == WeekdaysOnly => MovedByWholeDays(rewardsForm)

SameZoneShowsWorkingDay ==
  WeekdaysOnly /\ rewardsForm.formData.time_zone = rewardsForm.browserZone
    => ShownOnWorkingDay(rewardsForm)

\* a browser in UTC, Thursday 23:00 entered, Asia/Tokyo selected: Friday 23:00
\* UTC is shown as Saturday 08:00
ShownOnSaturday ==
  /\ WeekdaysOnly
  /\ rewardsForm.browserZone = "UTC"
  /\ rewardsForm.formData.time_zone = "Asia/Tokyo"
  /\ rewardsForm.formData.last_collection_time = LastTime("date", 95)
  /\ rewardsForm.loopSteps = 0
  /\ rewardsForm.nextCollectionTime = [shown |-> TRUE, day |-> 5, hour |-> 8]

\* the loop does take two steps
TwoStepsWereTaken == WeekdaysOnly /\ rewardsForm.loopSteps = 2

=============================================================================
